---- MODULE Spec2Model ----
(***************************************************************************)
(* Model of the useStateArray hook (src/src/index.ts, lines 78-214).       *)
(*                                                                         *)
(* JavaScript arrays are objects and Array.prototype.sort sorts the object *)
(* it is called on.  The hook stores the initialState object twice, as     *)
(* backupArray and as the first value of the array state, and setArray     *)
(* sorts whatever object it is handed.  The model therefore keeps the      *)
(* contents of the initialState object in one variable (backupArray) and   *)
(* lets a reference either alias that object or hold an array of its own.  *)
(* Every other array object is created by the hook (filter, spread) or by  *)
(* the caller for one call; once such an object is stored it is only ever  *)
(* sorted again, which leaves a sorted array as it is.                     *)
(*                                                                         *)
(* React runs the hook body once per render: the closures of one render    *)
(* read the array value of that render (variable array) while              *)
(* setArrayInternal writes the state cell (variable arrayState) that the   *)
(* next render will read.                                                  *)
(***************************************************************************)
EXTENDS Integers, Sequences, FiniteSets

\* Bounds of the model.
MaxItem == 3     \* number of distinct elements callers use
MaxReadLen == 3  \* longest initialState the readers are tried on alone
MaxLen == 2      \* longest initialState and longest array argument

VARIABLES
    keepSorted,     \* the keepSorted flag given at construction
    initialState,   \* the sequence the caller supplied at construction (by value)
    backupArray,    \* present contents of the initialState object, held as backupArray
    arrayState,     \* reference held by the React state cell (last setArrayInternal)
    array,          \* reference captured by the closures of the current render
    mutated,        \* some mutating operation has been called since construction
    op,             \* the operation that acted last
    arg,            \* its argument, normalised to a list
    ret,            \* the sequence it returned (<<>> when it returns none / null)
    flag            \* the boolean it returned (areEquals, areEqualsDeep)

vars == <<keepSorted, initialState, backupArray, arrayState, array,
          mutated, op, arg, ret, flag>>

----------------------------------------------------------------------------
\* Elements and the caller-supplied comparator

\* type Item = { id, value: { label } } of the test suite; the elements in
\* use are 1A, 1B, 2A, 2B, ... : two labels for each identity
Item ==
    {[id |-> (n + 1) \div 2, label |-> IF n % 2 = 1 THEN "A" ELSE "B"] :
        n \in 1..MaxItem}

\* Sequences over S of length at most n
SeqsUpTo(S, n) == UNION {[1..k -> S] : k \in 0..n}

\* objectComparator / numberComparator: three-way comparison on the identity
compareTo(a, b) == a.id - b.id

\* Variant of isEqual that compares identities only.
isEqualByComparator(a, b) == compareTo(a, b) = 0

\* lodash.isequal: structural equality
isEqual(a, b) == a = b

----------------------------------------------------------------------------
\* Array.prototype.sort(compareTo): stable, ascending

RECURSIVE InsertSorted(_, _)
InsertSorted(s, x) ==
    IF s = <<>> THEN <<x>>
    ELSE IF compareTo(Head(s), x) <= 0
         THEN <<Head(s)>> \o InsertSorted(Tail(s), x)
         ELSE <<x>> \o s

RECURSIVE sort(_)
sort(s) ==
    IF s = <<>> THEN <<>>
    ELSE InsertSorted(sort(SubSeq(s, 1, Len(s) - 1)), s[Len(s)])

----------------------------------------------------------------------------
\* References to array objects

\* the initialState object itself
InitialRef == [alias |-> TRUE, items |-> <<>>]

\* an array object other than the initialState object, holding s
OwnRef(s) == [alias |-> FALSE, items |-> s]

\* present contents of the object r refers to
Deref(r) == IF r.alias THEN backupArray ELSE r.items

\* Array.isArray(item) ? item : [item]
Normalize(item) == IF item.isArray THEN item.value ELSE <<item.value>>

\* what a caller can pass as item | items
ItemArgs ==
    {[isArray |-> FALSE, value |-> e] : e \in Item}
        \cup {[isArray |-> TRUE, value |-> s] : s \in SeqsUpTo(Item, MaxLen)}

----------------------------------------------------------------------------
\* The hook's functions

\* Variant of setArray that never sorts.
setArrayNoSort(items) ==
    /\ backupArray' = backupArray
    /\ arrayState' = items

\* Variant of setArray that sorts a copy and leaves the object it was given
\* alone.
setArrayCopy(items) ==
    /\ backupArray' = backupArray
    /\ arrayState' = OwnRef(IF keepSorted THEN sort(Deref(items))
                                          ELSE Deref(items))

\* Variant of setArray that sorts whatever keepSorted says.
setArrayAlwaysSort(items) ==
    /\ backupArray' = IF items.alias THEN sort(backupArray) ELSE backupArray
    /\ arrayState' = IF items.alias THEN InitialRef
                                    ELSE OwnRef(sort(items.items))

\* setArray: keepSorted ? setArrayInternal(items.sort(compareTo))
\*                      : setArrayInternal(items)
\* items is a reference: sort rearranges the object it refers to, and the
\* state cell then holds that same object.
setArray(items) ==
    /\ backupArray' = IF items.alias /\ keepSorted
                      THEN sort(backupArray)
                      ELSE backupArray
    /\ arrayState' = IF items.alias
                     THEN InitialRef
                     ELSE OwnRef(IF keepSorted THEN sort(items.items)
                                               ELSE items.items)

\* Variant of cleanArrayFromItem that filters nothing out.
cleanArrayFromItemNoFilter(item) ==
    IF keepSorted THEN sort(Deref(array)) ELSE Deref(array)

\* Variant of cleanArrayFromItem that compares with the first given item only.
cleanArrayFromItemFirstOnly(item) ==
    LET items == Normalize(item)
        keep(existing) ==
            ~ (items # <<>> /\ compareTo(existing, items[1]) = 0)
        cleanedArray == SelectSeq(Deref(array), keep)
    IN  IF keepSorted THEN sort(cleanedArray) ELSE cleanedArray

\* Variant of cleanArrayFromItem that tests compareTo(existing, i) <= 0.
cleanArrayFromItemLessEqual(item) ==
    LET items == Normalize(item)
        keep(existing) ==
            ~ \E k \in 1..Len(items) : compareTo(existing, items[k]) <= 0
        cleanedArray == SelectSeq(Deref(array), keep)
    IN  IF keepSorted THEN sort(cleanedArray) ELSE cleanedArray

\* cleanArrayFromItem: a new array of the elements of array that compare
\* equal to none of the given items, sorted when keepSorted
cleanArrayFromItem(item) ==
    LET items == Normalize(item)
        keep(existing) ==
            ~ \E k \in 1..Len(items) : compareTo(existing, items[k]) = 0
        cleanedArray == SelectSeq(Deref(array), keep)
    IN  IF keepSorted THEN sort(cleanedArray) ELSE cleanedArray

\* Variant of upsertedArray that spreads the given items first.
upsertedArrayItemsFirst(item) ==
    LET spread == Normalize(item) \o cleanArrayFromItem(item)
    IN  IF keepSorted THEN sort(spread) ELSE spread

\* Variant of upsertedArray that inserts only what is absent: when an element
\* of array compares equal to a given item, array is kept as it is.
upsertedArrayKeepOld(item) ==
    LET items == Normalize(item)
        present ==
            \E i \in 1..Len(Deref(array)) : \E k \in 1..Len(items) :
                compareTo(Deref(array)[i], items[k]) = 0
        spread == IF present THEN Deref(array)
                             ELSE cleanArrayFromItem(item) \o items
    IN  IF keepSorted THEN sort(spread) ELSE spread

\* addItem: the contents of the upsertedArray object when addItem returns.
\* The object is built by the spread, sorted in place by the argument
\* expression of the setArray call and sorted in place again inside setArray;
\* that one object is both stored and returned.
upsertedArray(item) ==
    LET spread == cleanArrayFromItem(item) \o Normalize(item)
        passed == IF keepSorted THEN sort(spread) ELSE spread
    IN  IF keepSorted THEN sort(passed) ELSE passed

\* Variant of addItem's return value: the spread as it was before any sort.
addItemReturnPreSort(item) == cleanArrayFromItem(item) \o Normalize(item)

\* the value addItem hands back: the upsertedArray object
addItemReturn(item) == upsertedArray(item)

\* the value removeItem hands back: the object cleanArrayFromItem built,
\* as setArray left it
removeItemReturn(item) ==
    LET cleaned == cleanArrayFromItem(item)
    IN  IF keepSorted THEN sort(cleaned) ELSE cleaned

\* Variant of areEquals that also asks for equal lengths.
areEqualsSameLength(items) ==
    /\ Len(cleanArrayFromItem([isArray |-> TRUE, value |-> items])) = 0
    /\ Len(items) = Len(Deref(array))

\* areEquals: cleanArrayFromItem(items).length === 0
areEquals(items) ==
    Len(cleanArrayFromItem([isArray |-> TRUE, value |-> items])) = 0

\* areEqualsDeep: equal lengths, and every element of each side has an
\* isEqual element on the other side
areEqualsDeep(items) ==
    LET cur == Deref(array)
        inItems(arrayItem) ==
            \E k \in 1..Len(items) : isEqual(arrayItem, items[k])
        inArray(item) ==
            \E k \in 1..Len(cur) : isEqual(cur[k], item)
    IN  /\ Len(cur) = Len(items)
        /\ Len(SelectSeq(cur, inItems)) = Len(cur)
        /\ Len(SelectSeq(items, inArray)) = Len(items)

\* Variant of find that returns the last match.
RECURSIVE findLast(_, _)
findLast(s, item) ==
    IF s = <<>> THEN <<>>
    ELSE IF compareTo(item, s[Len(s)]) = 0 THEN <<s[Len(s)]>>
         ELSE findLast(SubSeq(s, 1, Len(s) - 1), item)

\* Array.prototype.find with the predicate compareTo(item, arrayItem) === 0,
\* as a list: <<first match>>, or <<>> for undefined
RECURSIVE find(_, _)
find(s, item) ==
    IF s = <<>> THEN <<>>
    ELSE IF compareTo(item, Head(s)) = 0 THEN <<Head(s)>>
         ELSE find(Tail(s), item)

\* findInArray: array.find(...) ?? null, null written <<>>
findInArray(item) == find(Deref(array), item)

\* Variant of the reduce that compares an element with the last kept one only.
RECURSIVE reduceSingleRuns(_, _)
reduceSingleRuns(acc, rest) ==
    IF rest = <<>> THEN acc
    ELSE reduceSingleRuns(
            IF acc # <<>> /\ compareTo(Head(rest), acc[Len(acc)]) = 0
            THEN acc
            ELSE Append(acc, Head(rest)),
            Tail(rest))

\* toSingleOccurrence: array.reduce over the elements left to right,
\* appending an element unless acc already holds one comparing equal
RECURSIVE reduceSingle(_, _)
reduceSingle(acc, rest) ==
    IF rest = <<>> THEN acc
    ELSE reduceSingle(
            IF find(acc, Head(rest)) # <<>> THEN acc
                                            ELSE Append(acc, Head(rest)),
            Tail(rest))

toSingleOccurrence == reduceSingle(<<>>, Deref(array))

----------------------------------------------------------------------------
\* State machine

\* useStateArray(compareTo, initialState, keepSorted): both useState calls
\* receive the initialState object; nothing is sorted.
Init ==
    /\ keepSorted \in BOOLEAN
    /\ initialState \in SeqsUpTo(Item, MaxLen)
    /\ backupArray = initialState
    /\ arrayState = InitialRef
    /\ array = InitialRef
    /\ mutated = FALSE
    /\ op = "construct"
    /\ arg = <<>>
    /\ ret = <<>>
    /\ flag = FALSE

\* setArray(items), items a new array or the array value of this render
SetArray ==
    \E items \in {OwnRef(s) : s \in SeqsUpTo(Item, MaxLen)} \cup {array} :
        /\ setArray(items)
        /\ mutated' = TRUE
        /\ op' = "setArray"
        /\ arg' = Deref(items)
        /\ ret' = <<>>
        /\ flag' = FALSE
        /\ UNCHANGED <<keepSorted, initialState, array>>

\* addItem(item)
AddItem ==
    \E item \in ItemArgs :
        /\ setArray(OwnRef(upsertedArray(item)))
        /\ mutated' = TRUE
        /\ op' = "addItem"
        /\ arg' = Normalize(item)
        /\ ret' = addItemReturn(item)
        /\ flag' = FALSE
        /\ UNCHANGED <<keepSorted, initialState, array>>

\* removeItem(item)
RemoveItem ==
    \E item \in ItemArgs :
        /\ setArray(OwnRef(cleanArrayFromItem(item)))
        /\ mutated' = TRUE
        /\ op' = "removeItem"
        /\ arg' = Normalize(item)
        /\ ret' = removeItemReturn(item)
        /\ flag' = FALSE
        /\ UNCHANGED <<keepSorted, initialState, array>>

\* resetArray(): setArray(backupArray); return backupArray
ResetArray ==
    /\ setArray(InitialRef)
    /\ mutated' = TRUE
    /\ op' = "resetArray"
    /\ arg' = <<>>
    /\ ret' = backupArray'
    /\ flag' = FALSE
    /\ UNCHANGED <<keepSorted, initialState, array>>

\* The four readers are called on the handle of a finished render, with no
\* update pending, as the test suite calls them.

\* Variant of areEquals(items) whose filter result is the array object itself,
\* so that the sort of cleanArrayFromItem rearranges the stored object.
AreEqualsInPlace ==
    \E items \in SeqsUpTo(Item, MaxLen) :
        /\ array = arrayState
        /\ op' = "areEquals"
        /\ arg' = items
        /\ ret' = <<>>
        /\ flag' = areEquals(items)
        /\ backupArray' = IF array.alias /\ keepSorted THEN sort(backupArray)
                                                       ELSE backupArray
        /\ UNCHANGED <<keepSorted, initialState, arrayState, array, mutated>>

\* areEquals(items)
AreEquals ==
    \E items \in SeqsUpTo(Item, MaxLen) :
        /\ array = arrayState
        /\ op' = "areEquals"
        /\ arg' = items
        /\ ret' = <<>>
        /\ flag' = areEquals(items)
        /\ UNCHANGED <<keepSorted, initialState, backupArray, arrayState,
                       array, mutated>>

\* areEqualsDeep(items)
AreEqualsDeep ==
    \E items \in SeqsUpTo(Item, MaxLen) :
        /\ array = arrayState
        /\ op' = "areEqualsDeep"
        /\ arg' = items
        /\ ret' = <<>>
        /\ flag' = areEqualsDeep(items)
        /\ UNCHANGED <<keepSorted, initialState, backupArray, arrayState,
                       array, mutated>>

\* findInArray(item)
FindInArray ==
    \E item \in Item :
        /\ array = arrayState
        /\ op' = "findInArray"
        /\ arg' = <<item>>
        /\ ret' = findInArray(item)
        /\ flag' = FALSE
        /\ UNCHANGED <<keepSorted, initialState, backupArray, arrayState,
                       array, mutated>>

\* toSingleOccurrence()
ToSingleOccurrence ==
    /\ array = arrayState
    /\ op' = "toSingleOccurrence"
    /\ arg' = <<>>
    /\ ret' = toSingleOccurrence
    /\ flag' = FALSE
    /\ UNCHANGED <<keepSorted, initialState, backupArray, arrayState,
                   array, mutated>>

\* React renders again after the state cell was given another object: the
\* hook body runs and its closures capture the cell's value as array.
Render ==
    /\ array # arrayState
    /\ array' = arrayState
    /\ op' = "render"
    /\ arg' = <<>>
    /\ ret' = <<>>
    /\ flag' = FALSE
    /\ UNCHANGED <<keepSorted, initialState, backupArray, arrayState, mutated>>

Next ==
    \/ SetArray
    \/ AddItem
    \/ RemoveItem
    \/ ResetArray
    \/ AreEquals
    \/ AreEqualsDeep
    \/ FindInArray
    \/ ToSingleOccurrence
    \/ Render

Spec == Init /\ [][Next]_vars

\* The readers alone, called right after construction on initialState as it
\* was given, for every initialState up to MaxReadLen elements
InitRead ==
    /\ keepSorted \in BOOLEAN
    /\ initialState \in SeqsUpTo(Item, MaxReadLen)
    /\ backupArray = initialState
    /\ arrayState = InitialRef
    /\ array = InitialRef
    /\ mutated = FALSE
    /\ op = "construct"
    /\ arg = <<>>
    /\ ret = <<>>
    /\ flag = FALSE

NextRead ==
    \/ AreEquals
    \/ AreEqualsDeep
    \/ FindInArray
    \/ ToSingleOccurrence

SpecRead == InitRead /\ [][NextRead]_vars

----------------------------------------------------------------------------
\* Vocabulary of the properties

\* the array the last mutation committed
committed == Deref(arrayState)

\* the sequence the hook's closures read
current == Deref(array)

\* non-decreasing by compareTo
IsSorted(s) == \A i \in 1..(Len(s) - 1) : compareTo(s[i], s[i + 1]) <= 0

\* e compares equal to some element of items
Matches(e, items) == \E k \in 1..Len(items) : compareTo(e, items[k]) = 0

\* the elements of s that compare equal to no element of items, in order
RECURSIVE Retained(_, _)
Retained(s, items) ==
    IF s = <<>> THEN <<>>
    ELSE (IF Matches(Head(s), items) THEN <<>> ELSE <<Head(s)>>)
            \o Retained(Tail(s), items)

\* number of positions of s holding e
Count(s, e) == Cardinality({i \in 1..Len(s) : s[i] = e})

\* the same elements, each as many times
SameElements(a, b) == \A e \in Item : Count(a, e) = Count(b, e)

\* the elements of s comparing equal to e, in order
EqualTo(s, e) == SelectSeq(s, LAMBDA x : compareTo(x, e) = 0)

\* r is s sorted by compareTo, elements that compare equal kept in s's order
StablySorted(r, s) ==
    /\ IsSorted(r)
    /\ \A e \in Item : EqualTo(r, e) = EqualTo(s, e)

\* no two positions compare equal
NoDuplicates(s) ==
    \A i, j \in 1..Len(s) : i # j => compareTo(s[i], s[j]) # 0

----------------------------------------------------------------------------
\* C1: with keepSorted, once any of setArray, addItem, removeItem or
\* resetArray has been called, whatever the initialState was, the committed
\* array is sorted non-decreasing by compareTo.
C1_SortedAfterMutation ==
    (keepSorted /\ mutated) => IsSorted(committed)

\* resetArray has acted on an unsorted initialState under keepSorted
C1_Witness ==
    /\ keepSorted
    /\ op = "resetArray"
    /\ ~ IsSorted(initialState)

\* C2: the snapshot backupArray holds, in every reachable state and for both
\* values of keepSorted, the elements of the initialState given at
\* construction, in the same order.
C2_SnapshotNeverChanges == backupArray = initialState

C4_AddItemLeavesNoDuplicates ==
    (op = "addItem" /\ NoDuplicates(arg)) => NoDuplicates(committed)

\* C4 amended: addItem with pairwise comparator-distinct elements commits an
\* array in which two positions compare equal only if they match none of the
\* incoming elements (they are duplicates the current sequence already held);
\* when the current sequence holds no duplicates, neither does the committed
\* array.
C4_AddItemAddsNoDuplicates ==
    (op = "addItem" /\ NoDuplicates(arg)) =>
        /\ \A i, j \in 1..Len(committed) :
              (i # j /\ compareTo(committed[i], committed[j]) = 0)
                  => (~ Matches(committed[i], arg)
                      /\ ~ NoDuplicates(Retained(current, arg)))
        /\ NoDuplicates(current) => NoDuplicates(committed)

\* addItem has replaced a duplicated element of the current sequence by the
\* incoming one
C4_Witness ==
    /\ op = "addItem"
    /\ arg # <<>>
    /\ NoDuplicates(arg)
    /\ ~ NoDuplicates(current)
    /\ NoDuplicates(committed)

\* C5: addItem(incoming) commits the elements of the current sequence that
\* compare equal to no incoming element, followed by the incoming elements
\* in the given order: exactly that sequence when keepSorted is false, the
\* same elements in compareTo order when keepSorted is true.
C5_AddItemCommitsUpsert ==
    op = "addItem" =>
        LET expected == Retained(current, arg) \o arg
        IN  IF keepSorted
            THEN IsSorted(committed) /\ SameElements(committed, expected)
            ELSE committed = expected

\* addItem with a list holding two comparator-equal elements has dropped an
\* element of the current sequence and kept another, under keepSorted
C5_Witness ==
    /\ op = "addItem"
    /\ keepSorted
    /\ Len(arg) = 2
    /\ ~ NoDuplicates(arg)
    /\ Retained(current, arg) # <<>>
    /\ Retained(current, arg) # current

\* C6 as stated: addItem returns the concatenation of the retained elements
\* and the incoming elements as it was before any sort, also when keepSorted
\* is true.
C6_AddItemReturnsPreSort ==
    op = "addItem" => ret = Retained(current, arg) \o arg

\* C6 amended: addItem returns the concatenation of the retained elements
\* and the incoming elements when keepSorted is false; when keepSorted is
\* true it returns that concatenation sorted by compareTo (equal elements in
\* their order of the concatenation).
C6_AddItemReturnValue ==
    op = "addItem" =>
        LET expected == Retained(current, arg) \o arg
        IN  IF keepSorted THEN StablySorted(ret, expected)
                          ELSE ret = expected

\* addItem has acted under keepSorted where the concatenation is not sorted
C6_Witness ==
    /\ op = "addItem"
    /\ keepSorted
    /\ ~ IsSorted(Retained(current, arg) \o arg)

\* C7: for both values of keepSorted, the sequence addItem returns equals the
\* array that call committed, element for element and in order.
C7_AddItemReturnsCommitted ==
    op = "addItem" => ret = committed

\* addItem has acted under keepSorted and returned a retained element after
\* an incoming one
C7_Witness ==
    /\ op = "addItem"
    /\ keepSorted
    /\ Retained(current, arg) # <<>>
    /\ ret # <<>>
    /\ Matches(ret[1], arg)
    /\ ~ Matches(ret[Len(ret)], arg)

\* C8: removeItem commits and returns one and the same sequence, holding
\* exactly the elements of the current sequence that compare equal to no
\* element of the argument; when keepSorted is false they keep their order.
C8_RemoveItemCommitsRetained ==
    op = "removeItem" =>
        /\ ret = committed
        /\ SameElements(committed, Retained(current, arg))
        /\ \A i \in 1..Len(committed) : ~ Matches(committed[i], arg)
        /\ ~ keepSorted => committed = Retained(current, arg)

\* removeItem has removed two occurrences of a matched element and kept an
\* unmatched one
C8_Witness ==
    /\ op = "removeItem"
    /\ Len(committed) >= 1
    /\ Len(current) >= Len(committed) + 2

\* C9: right after construction array holds initialState sorted by compareTo
\* when keepSorted is true, and initialState as given when it is false.
C9_ConstructedSorted ==
    op = "construct" =>
        IF keepSorted
        THEN IsSorted(current) /\ SameElements(current, initialState)
        ELSE current = initialState

C11_AreEqualsIsSetEquality ==
    (op = "areEquals" /\ flag) =>
        /\ \A i \in 1..Len(current) : Matches(current[i], arg)
        /\ \A k \in 1..Len(arg) : Matches(arg[k], current)

Readers == {"areEquals", "areEqualsDeep", "findInArray", "toSingleOccurrence"}

\* C13: no call to setArray, addItem, removeItem or resetArray changes, in
\* place, a sequence the caller already holds.  The array value read at the
\* first render is the initialState object, so as long as the handle holds
\* it, it reads as initialState did at construction; and the items object
\* handed to setArray is the object setArray stores, so after the call it
\* reads as it did when it was passed.
C13_NoInPlaceChange ==
    /\ array.alias => current = initialState
    /\ op = "setArray" => committed = arg

\* C14: findInArray, areEquals, areEqualsDeep and toSingleOccurrence leave
\* array, the state cell and the snapshot as they were before the call.
C14_ReadersChangeNothing ==
    [][(op' \in Readers) =>
          /\ Deref(array)' = Deref(array)
          /\ Deref(arrayState)' = Deref(arrayState)
          /\ backupArray' = backupArray
          /\ array' = array
          /\ arrayState' = arrayState]_vars

\* areEquals has filtered and sorted, under keepSorted, an unsorted current
\* sequence of which two elements remained
C14_Witness ==
    /\ op = "areEquals"
    /\ keepSorted
    /\ ~ flag
    /\ ~ IsSorted(Retained(current, arg))
    /\ current = initialState

\* s is what addItem(x) commits on some sequence: x is its only element
\* comparing equal to x, at the end, or in place when keepSorted
IsUpsertOf(s, x) ==
    /\ EqualTo(s, x) = <<x>>
    /\ IF keepSorted THEN IsSorted(s) ELSE s[Len(s)] = x

\* C15: addItem(x) called on the array that an addItem(x) committed commits
\* that same array again, for both values of keepSorted.
C15_AddItemIdempotent ==
    (op = "addItem" /\ Len(arg) = 1 /\ IsUpsertOf(current, arg[1]))
        => committed = current

\* addItem(x) has acted a second time, on a rendered array of several
\* elements in which x is not the greatest
C15_Witness ==
    /\ op = "addItem"
    /\ Len(arg) = 1
    /\ IsUpsertOf(current, arg[1])
    /\ ~ array.alias
    /\ Len(current) >= 2
    /\ compareTo(arg[1], current[Len(current)]) < 0

\* C16: setArray(items) commits items exactly, in the same order and with its
\* duplicates, when keepSorted is false, and a permutation of items when
\* keepSorted is true.
C16_SetArrayCommitsItems ==
    op = "setArray" =>
        IF keepSorted THEN SameElements(committed, arg)
                      ELSE committed = arg

\* setArray has acted on an unsorted list without keepSorted
C16_Witness ==
    /\ op = "setArray"
    /\ ~ keepSorted
    /\ ~ IsSorted(arg)

\* the positions of s whose element compares equal to no earlier element
FirstPositions(s) ==
    {i \in 1..Len(s) : \A j \in 1..(i - 1) : compareTo(s[j], s[i]) # 0}

\* the elements of s at the positions P, in the order of s
AtPositions(s, P) ==
    [k \in 1..Cardinality(P) |->
        s[CHOOSE i \in P : Cardinality({j \in P : j <= i}) = k]]

C18_FindReturnsFirstMatch ==
    op = "findInArray" =>
        LET hits == {i \in 1..Len(current) : compareTo(arg[1], current[i]) = 0}
        IN  IF hits = {}
            THEN ret = <<>>
            ELSE ret = <<current[CHOOSE i \in hits : \A j \in hits : i <= j]>>

\* findInArray has returned the first of two stored elements comparing equal
\* to the probe, which is the second of them
C18_Witness ==
    /\ op = "findInArray"
    /\ ret # <<>>
    /\ ret[1] # arg[1]
    /\ \E i, j \in 1..Len(current) :
          /\ i < j
          /\ current[i] = ret[1]
          /\ current[j] = arg[1]

\* C19: removeItem with an argument of which no element compares equal to an
\* element of the current sequence commits and returns the elements it had,
\* in the same order when keepSorted is false and in compareTo order when
\* keepSorted is true.
C19_RemoveAbsentIsNoOp ==
    (op = "removeItem" /\ \A i \in 1..Len(current) : ~ Matches(current[i], arg))
        =>  /\ ret = committed
            /\ IF keepSorted THEN StablySorted(committed, current)
                             ELSE committed = current

\* removeItem has acted with an element greater than all of a non-empty
\* current sequence that holds none equal to it
C19_Witness ==
    /\ op = "removeItem"
    /\ arg # <<>>
    /\ current # <<>>
    /\ \A i \in 1..Len(current) : compareTo(current[i], arg[1]) < 0
    /\ \A i \in 1..Len(current) : ~ Matches(current[i], arg)

\* C20: of two mutating calls issued one after the other on the same handle,
\* the second works on what the first committed: after addItem(x) and then
\* addItem(y), the committed array holds elements comparing equal to the
\* elements of x and of y.
C20_SecondCallSeesFirst ==
    [][(op = "addItem" /\ op' = "addItem") =>
          /\ \A k \in 1..Len(arg) : Matches(arg[k], Deref(arrayState)')
          /\ \A k \in 1..Len(arg') : Matches(arg'[k], Deref(arrayState)')]_vars

\* C21: once addItem(x) with a single element x is committed, the array
\* holds x itself and none of the elements that compared equal to x before,
\* so that findInArray(x), which reads the committed array after the render,
\* returns x as given; and once removeItem(x) is committed, findInArray(x)
\* returns null.
C21_UpsertReplacesByIdentity ==
    /\ (op = "addItem" /\ Len(arg) = 1) =>
          /\ find(committed, arg[1]) = <<arg[1]>>
          /\ \A i \in 1..Len(committed) :
                compareTo(committed[i], arg[1]) = 0 => committed[i] = arg[1]
    /\ (op = "removeItem" /\ Len(arg) = 1) => find(committed, arg[1]) = <<>>

\* addItem(x) has replaced a stored element that compares equal to x and
\* differs from it, x itself not having been stored
C21_Witness ==
    /\ op = "addItem"
    /\ Len(arg) = 1
    /\ \E i \in 1..Len(current) :
          compareTo(current[i], arg[1]) = 0 /\ current[i] # arg[1]
    /\ \A i \in 1..Len(current) : current[i] # arg[1]
    /\ Len(committed) >= 2

====
